---- MODULE Spec2Model ----
(***************************************************************************)
(* A model of src/main.py: the YouTube collection pipeline                 *)
(* (YouTubeAnalytics.get_channel_stats, get_video_ids, get_video_details,  *)
(* get_live_streams, preprocess_video_data, and main).                     *)
(*                                                                         *)
(* Python values are tagged records, so that values of different Python    *)
(* types can be compared: None, str (a tuple of one-character strings),    *)
(* opaque identifier strings (video ids, page tokens), int, float (an      *)
(* exact fraction), list.  A dict is a function whose DOMAIN is the set of *)
(* keys that are present.                                                  *)
(***************************************************************************)
EXTENDS Integers, Sequences, FiniteSets, TLC

\* ------------------------------------------------------------------ bounds
\* Longest chain of listing pages a playlist fixture has.
MaxPages == 3
\* Largest number of video ids handed to get_video_details on its own.
MaxIds == 101
\* Largest number of rows of a table handed to preprocess_video_data on its own.
MaxRows == 2
\* Longest chain of listing pages of a playlist in a run of main.
MainMaxPages == 2
\* Largest number of live videos a search response lists.
MaxLive == 2

\* ------------------------------------------------------- program constants
\* maxResults=50 of playlistItems().list
PageSize == 50
\* range(0, len(video_ids), 50) and video_ids[i:i+50]
ChunkSize == 50
\* len(YOUTUBE_CHANNEL_IDS)
NumChannelIds == 2

\* ----------------------------------------------------------- Python values
None == [t |-> "none"]
NaN == [t |-> "nan"]
PyStr(chars) == [t |-> "str", v |-> chars]
PyId(n) == [t |-> "id", v |-> n]
PyInt(n) == [t |-> "int", v |-> n]
PyList(l) == [t |-> "list", v |-> l]
\* A dict with no key the program looks up.
EmptyDict == [py |-> "dict"]

\* d.get(k): None when the key is absent.
Get(d, k) == IF k \in DOMAIN d THEN d[k] ELSE None

\* d.get(k, default)
GetOr(d, k, default) == IF k \in DOMAIN d THEN d[k] ELSE default

\* Python truthiness of the values the code tests with `if x` / `if not x`.
Truthy(x) ==
    CASE x.t = "none" -> FALSE
      [] x.t = "str"  -> x.v # <<>>
      [] x.t = "list" -> x.v # <<>>
      [] x.t = "int"  -> x.v # 0
      [] OTHER        -> TRUE

\* pd.isnull
IsNull(x) == x.t \in {"none", "nan"}

RECURSIVE Concat(_)
Concat(ss) == IF ss = <<>> THEN <<>> ELSE Head(ss) \o Concat(Tail(ss))

Min(a, b) == IF a < b THEN a ELSE b

\* seq[i:j] with 0-based i, j as in Python (j may exceed len(seq)).
Slice(seq, i, j) == SubSeq(seq, i + 1, Min(j, Len(seq)))

VARIABLES
    pc,               \* the position of the program
    caller,           \* "main", or "none" when a method is run on its own
    error,            \* the exception that ended the run, or "none"
    requests,         \* every request executed so far, in order
    responses,        \* the outcome of each request of the current call
                      \* (in main's live loop: of each probe so far)
    listing,          \* the provider's pages of the playlist being listed
    playlist_id,      \* get_video_ids: its argument
    video_ids,        \* get_video_ids: video_ids
    next_page_token,  \* get_video_ids: next_page_token
    returned,         \* get_video_ids: what its earlier calls on the fixture gave
    detail_ids,       \* get_video_details: its argument video_ids
    i,                \* get_video_details: the loop variable i
    all_video_info,   \* get_video_details: all_video_info
    video_df,         \* preprocess_video_data: its argument, then its result
    pre_input,        \* preprocess_video_data: the argument as it was passed
    channel_stats,    \* main: channel_stats (the rows of the table)
    ch,               \* main: the row of channel_stats a loop is at
    all_videos_df,    \* main: all_videos_df
    live_streams_data,\* main: live_streams_data
    emitted           \* main: the tables written so far

vars == <<pc, caller, error, requests, responses, listing, playlist_id,
          video_ids, next_page_token, returned, detail_ids, i, all_video_info,
          video_df, pre_input, channel_stats, ch, all_videos_df,
          live_streams_data, emitted>>

idsVars == <<listing, playlist_id, video_ids, next_page_token, returned>>
detailVars == <<detail_ids, i, all_video_info>>
preVars == <<video_df, pre_input>>
mainVars == <<channel_stats, ch, all_videos_df, live_streams_data, emitted>>

\* A table (pandas DataFrame): whether it has the columns at all, and its rows.
\* pd.DataFrame() and pd.DataFrame([]) have no columns.
EmptyFrame == [columns |-> FALSE, rows |-> <<>>]

\* pd.DataFrame(list of dicts)
FrameOf(rows) == [columns |-> rows # <<>>, rows |-> rows]

\* ------------------------------------------------- the listing provider
\* The identifier the j-th item of page k refers to.
VideoIdOf(k, j) == PyId(10 * k + j)

ItemWithVideo(k, j) == [contentDetails |-> [videoId |-> VideoIdOf(k, j)]]
ItemNoVideoId == [contentDetails |-> EmptyDict]
ItemEmptyVideoId == [contentDetails |-> [videoId |-> PyStr(<<>>)]]
ItemNoContentDetails == EmptyDict

\* The item lists a page k may carry; a run of main meets three of them.
ItemLists(k) ==
    { <<>>,
      <<ItemNoVideoId, ItemWithVideo(k, 1)>>,
      <<ItemWithVideo(k, 1), ItemNoContentDetails, ItemWithVideo(k, 2)>> }
    \cup (IF caller = "main" THEN {}
          ELSE { <<ItemWithVideo(k, 1)>>,
                 <<ItemWithVideo(k, 1), ItemWithVideo(k, 2)>>,
                 <<ItemWithVideo(k, 1), ItemEmptyVideoId>> })

PageToken(k) == [t |-> "id", v |-> 1000 + k]

\* What the provider does with the request for page k of a chain of n pages:
\* it fails (HttpError), or answers with a body.  A page before the last
\* carries the cursor of the next one; the last page carries none (the key
\* is absent, or its value is empty).
PageOutcomes(k, n) ==
    {[fail |-> TRUE]}
    \cup (IF k < n
          THEN {[fail |-> FALSE, body |-> [nextPageToken |-> PageToken(k + 1)]]}
               \cup {[fail |-> FALSE,
                      body |-> [items |-> l, nextPageToken |-> PageToken(k + 1)]]
                     : l \in ItemLists(k)}
          ELSE {[fail |-> FALSE, body |-> [items |-> l] ] : l \in ItemLists(k)}
               \cup {[fail |-> FALSE,
                      body |-> [items |-> l, nextPageToken |-> PyStr(<<>>)]]
                     : l \in {<<>>, <<ItemWithVideo(k, 1)>>}})

\* The chains of pages k..n of a playlist of n pages.
RECURSIVE PageChains(_, _)
PageChains(k, n) ==
    IF k > n THEN {<<>>}
    ELSE { <<p>> \o rest : p \in PageOutcomes(k, n), rest \in PageChains(k + 1, n) }

\* The fixtures of a playlist: finite chains of at most maxPages pages.
ListingFixtures(maxPages) == UNION { PageChains(1, n) : n \in 1..maxPages }

\* With playlistId=None the client drops the parameter and the provider
\* rejects the unfiltered request, or answers it with nothing.
NoFilterFixtures == { <<[fail |-> TRUE]>>, <<[fail |-> FALSE, body |-> [items |-> <<>>]]>> }

\* The page a request with the given pageToken asks for (0: no such page).
PageOf(token) ==
    IF token = None THEN 1
    ELSE IF token.t = "id" /\ token.v > 1000 THEN token.v - 1000 ELSE 0

\* ------------------------------------------------------- get_video_ids
ListRequest_NoCursor(playlist, token) ==
    [kind |-> "playlistItems", part |-> "contentDetails", playlistId |-> playlist,
     maxResults |-> PageSize, pageToken |-> None]

\* The request of one iteration of the loop.
ListRequest(playlist, token) ==
    [kind |-> "playlistItems", part |-> "contentDetails", playlistId |-> playlist,
     maxResults |-> PageSize, pageToken |-> token]

\* item['contentDetails'] raises KeyError when the section is absent.
ItemRaises(item) == "contentDetails" \notin DOMAIN item

\* The identifiers the loop over one page's items appends.
RECURSIVE PageVideoIds(_)
PageVideoIds(items) ==
    IF items = <<>> THEN <<>>
    ELSE LET vid == Get(Head(items)["contentDetails"], "videoId")
         IN  (IF Truthy(vid) THEN <<vid>> ELSE <<>>) \o PageVideoIds(Tail(items))

\* Where control goes when get_video_ids returns.
IdsReturnPc == IF caller = "main" THEN "main_after_ids" ELSE "done"

PcAfterListingError_Retry == "ids_loop"

\* except HttpError: log, break.
PcAfterListingError == IdsReturnPc

PcAfterPage_OnlyNone(token) == IF token = None THEN IdsReturnPc ELSE "ids_loop"

\* next_page_token = response.get('nextPageToken'); if not next_page_token: break
PcAfterPage(token) == IF ~Truthy(token) THEN IdsReturnPc ELSE "ids_loop"

\* One iteration of `while True`: the request, and either the except branch
\* or the processing of the response.
IdsRequest ==
    /\ pc = "ids_loop"
    /\ LET k == PageOf(next_page_token)
           out == IF k \in 1..Len(listing) THEN listing[k] ELSE [fail |-> TRUE]
       IN
       /\ requests' = Append(requests, ListRequest(playlist_id, next_page_token))
       /\ IF out.fail
          THEN /\ responses' = Append(responses, [ok |-> FALSE])
               /\ pc' = PcAfterListingError
               /\ UNCHANGED <<video_ids, next_page_token, error>>
          ELSE LET items == GetOr(out.body, "items", <<>>)
                   token == Get(out.body, "nextPageToken")
               IN
               /\ responses' = Append(responses, [ok |-> TRUE, body |-> out.body])
               /\ IF \E j \in 1..Len(items) : ItemRaises(items[j])
                  THEN /\ pc' = "raised"
                       /\ error' = "KeyError: contentDetails"
                       /\ UNCHANGED <<video_ids, next_page_token>>
                  ELSE /\ video_ids' = video_ids \o PageVideoIds(items)
                       /\ next_page_token' = token
                       /\ pc' = PcAfterPage(token)
                       /\ UNCHANGED error
    /\ UNCHANGED <<caller, listing, playlist_id, returned, detailVars, preVars, mainVars>>

\* get_video_ids run on its own against a fixture.
InitIds ==
    /\ pc = "ids_loop"
    /\ caller = "none"
    /\ error = "none"
    /\ requests = <<>>
    /\ responses = <<>>
    /\ playlist_id = PyId(1)
    /\ listing \in ListingFixtures(MaxPages)
    /\ video_ids = <<>>
    /\ next_page_token = None
    /\ returned = <<>>
    /\ detail_ids = <<>>
    /\ i = 0
    /\ all_video_info = <<>>
    /\ video_df = EmptyFrame
    /\ pre_input = EmptyFrame
    /\ channel_stats = <<>>
    /\ ch = 0
    /\ all_videos_df = EmptyFrame
    /\ live_streams_data = <<>>
    /\ emitted = <<>>

NextIds == IdsRequest

NewVideoIds_Kept == video_ids

\* video_ids = []: the list a call of get_video_ids starts with.
NewVideoIds == <<>>

\* A further call of get_video_ids(playlist_id) after the first one has
\* returned or raised, against the same pages: the caller keeps what the
\* first call gave, and the call starts from its own fresh locals.
IdsCallAgain ==
    /\ pc \in {"done", "raised"}
    /\ caller = "none"
    /\ returned = <<>>
    /\ returned' = <<[ids |-> video_ids, error |-> error, requests |-> Len(requests)]>>
    /\ video_ids' = NewVideoIds
    /\ next_page_token' = None
    /\ error' = "none"
    /\ responses' = <<>>
    /\ pc' = "ids_loop"
    /\ UNCHANGED <<caller, requests, listing, playlist_id, detailVars, preVars, mainVars>>

NextIdsTwice == IdsRequest \/ IdsCallAgain

\* get_video_ids called twice in a row on one fixture.
SpecIdsTwice == InitIds /\ [][NextIdsTwice]_vars /\ WF_vars(NextIdsTwice)

\* The loop is sequential code: it takes its next step whenever it has one.
SpecIds == InitIds /\ [][NextIds]_vars /\ WF_vars(NextIds)

\* ------------------------------------------------- the videos provider
TitleAb == PyStr(<<"a", "b">>)
TagsXy == PyList(<<PyStr(<<"x">>), PyStr(<<"y">>)>>)
Date20240311 ==
    PyStr(<<"2", "0", "2", "4", "-", "0", "3", "-", "1", "1", "T",
            "1", "2", ":", "0", "0", ":", "0", "0", "Z">>)
DurationPT1H2M10S == PyStr(<<"P", "T", "1", "H", "2", "M", "1", "0", "S">>)
Junk == PyStr(<<"a", "b", "c">>)

\* The shapes of a video item of a videos().list response.
VideoShapes == {"full", "sparse", "partial", "junk"}

\* The item the provider returns for a video id, by shape: every requested
\* field (and fields nobody asked for); no section at all; sections with
\* nothing in them; malformed values.
VideoItem(id, shape) ==
    CASE shape = "full" ->
           [id |-> id, kind |-> PyStr(<<"v">>),
            snippet |-> [channelTitle |-> PyStr(<<"c">>), title |-> TitleAb,
                         description |-> PyStr(<<"d">>), tags |-> TagsXy,
                         publishedAt |-> Date20240311,
                         categoryId |-> PyStr(<<"2">>)],
            statistics |-> [viewCount |-> PyStr(<<"1", "0", "0", "0">>),
                            likeCount |-> PyStr(<<"5", "0">>),
                            favoriteCount |-> PyStr(<<"0">>),
                            commentCount |-> PyStr(<<"5">>)],
            contentDetails |-> [duration |-> DurationPT1H2M10S,
                                definition |-> PyStr(<<"h", "d">>),
                                caption |-> PyStr(<<"f">>),
                                dimension |-> PyStr(<<"2", "d">>)]]
      [] shape = "sparse" -> [id |-> id]
      [] shape = "partial" ->
           [snippet |-> [title |-> TitleAb], statistics |-> EmptyDict,
            contentDetails |-> EmptyDict]
      [] OTHER ->
           [id |-> id,
            snippet |-> [title |-> TitleAb, tags |-> Junk, publishedAt |-> Junk],
            statistics |-> [viewCount |-> Junk, likeCount |-> PyStr(<<"5">>)],
            contentDetails |-> [duration |-> Junk]]

RECURSIVE Reverse(_)
Reverse(seq) == IF seq = <<>> THEN <<>> ELSE Reverse(Tail(seq)) \o <<Head(seq)>>

\* The orders in which the provider lists the videos of a chunk: as asked,
\* reversed, or without the first (a video that is gone).
ResponseOrders == {"asked", "reversed", "first_gone"}

Arrange(chunk, order) ==
    CASE order = "asked" -> chunk
      [] order = "reversed" -> Reverse(chunk)
      [] OTHER -> Tail(chunk)

\* What the provider does with the request for a chunk: it fails
\* (HttpError), or answers with a body, with or without an items list.
\* get_video_details on its own meets every order and shape; in a run of
\* main the provider lists the videos as asked, in three of the shapes.
DetailOutcomes(chunk) ==
    LET orders == IF caller = "main" THEN {"asked"} ELSE ResponseOrders
        shapes == IF caller = "main" THEN VideoShapes \ {"partial"} ELSE VideoShapes
    IN  {[fail |-> TRUE], [fail |-> FALSE, body |-> EmptyDict]}
        \cup { [fail |-> FALSE,
                body |-> [items |-> [j \in 1..Len(Arrange(chunk, o)) |->
                                       VideoItem(Arrange(chunk, o)[j], sh)]]]
               : o \in orders, sh \in shapes }

\* --------------------------------------------------- get_video_details
\* video_ids[i:i+50]
ChunkAt_Short(ids, at) == Slice(ids, at, at + ChunkSize - 1)

ChunkAt(ids, at) == Slice(ids, at, at + ChunkSize)

VideosRequest(chunk) ==
    [kind |-> "videos", part |-> "snippet,contentDetails,statistics", id |-> chunk]

\* video.get(section, {}).get(key)
VideoField(video, section, key) == Get(GetOr(video, section, EmptyDict), key)

\* video_info: the id and the allow-listed fields of stats_to_keep.
ProjectVideo(video) ==
    [video_id |-> Get(video, "id"),
     channelTitle |-> VideoField(video, "snippet", "channelTitle"),
     title |-> VideoField(video, "snippet", "title"),
     description |-> VideoField(video, "snippet", "description"),
     tags |-> VideoField(video, "snippet", "tags"),
     publishedAt |-> VideoField(video, "snippet", "publishedAt"),
     viewCount |-> VideoField(video, "statistics", "viewCount"),
     likeCount |-> VideoField(video, "statistics", "likeCount"),
     favoriteCount |-> VideoField(video, "statistics", "favoriteCount"),
     commentCount |-> VideoField(video, "statistics", "commentCount"),
     duration |-> VideoField(video, "contentDetails", "duration"),
     definition |-> VideoField(video, "contentDetails", "definition"),
     caption |-> VideoField(video, "contentDetails", "caption")]

\* The rows the loop over a response's items appends.
VideoRows(body) ==
    LET items == GetOr(body, "items", <<>>)
    IN  [j \in 1..Len(items) |-> ProjectVideo(items[j])]

\* except HttpError: log; all_video_info keeps what the chunks before gave.
RowsAfterError(rows) == rows

IndexAfterError_Abort(at) == Len(detail_ids)

\* except HttpError: log; the for loop goes on with the next chunk.
IndexAfterError(at) == at + ChunkSize

\* One iteration of `for i in range(0, len(video_ids), 50)`.
DetailsRequest ==
    /\ pc = "details_loop"
    /\ i < Len(detail_ids)
    /\ LET chunk == ChunkAt(detail_ids, i)
       IN
       /\ requests' = Append(requests, VideosRequest(chunk))
       /\ \E out \in DetailOutcomes(chunk) :
             IF out.fail
             THEN /\ responses' = Append(responses, [ok |-> FALSE])
                  /\ all_video_info' = RowsAfterError(all_video_info)
                  /\ i' = IndexAfterError(i)
             ELSE /\ responses' = Append(responses, [ok |-> TRUE, body |-> out.body])
                  /\ all_video_info' = all_video_info \o VideoRows(out.body)
                  /\ i' = i + ChunkSize
    /\ UNCHANGED <<pc, caller, error, idsVars, detail_ids, preVars, mainVars>>

\* The loop is over: return pd.DataFrame(all_video_info).
DetailsReturn ==
    /\ pc = "details_loop"
    /\ i >= Len(detail_ids)
    /\ pc' = IF caller = "main" THEN "main_after_details" ELSE "done"
    /\ UNCHANGED <<caller, error, requests, responses, idsVars, detailVars,
                   preVars, mainVars>>

\* get_video_details run on its own on the ids 1..n, n up to MaxIds.
InitDetails ==
    /\ pc = "details_loop"
    /\ caller = "none"
    /\ error = "none"
    /\ requests = <<>>
    /\ responses = <<>>
    /\ playlist_id = None
    /\ listing = <<>>
    /\ video_ids = <<>>
    /\ next_page_token = None
    /\ returned = <<>>
    /\ \E n \in 0..MaxIds : detail_ids = [j \in 1..n |-> PyId(j)]
    /\ i = 0
    /\ all_video_info = <<>>
    /\ video_df = EmptyFrame
    /\ pre_input = EmptyFrame
    /\ channel_stats = <<>>
    /\ ch = 0
    /\ all_videos_df = EmptyFrame
    /\ live_streams_data = <<>>
    /\ emitted = <<>>

NextDetails == DetailsRequest \/ DetailsReturn

SpecDetails == InitDetails /\ [][NextDetails]_vars

\* ------------------------------------------ get_video_details: properties
\* ceil(n / 50)
NumChunks(n) == (n + ChunkSize - 1) \div ChunkSize

\* The k-th consecutive slice of at most 50 of the input ids.
KthChunk(k) ==
    SubSeq(detail_ids, ChunkSize * (k - 1) + 1, Min(ChunkSize * k, Len(detail_ids)))

\* The rows the k-th request gave: those of its response's items in the
\* provider's order, none when the request failed.
RowsOfRequest(k) ==
    IF responses[k].ok THEN VideoRows(responses[k].body) ELSE <<>>

\* C1: for N ids get_video_details issues exactly ceil(N/50) requests, the
\* k-th carrying the k-th consecutive slice of at most 50 ids, and the rows
\* are the responses' items in chunk order, each chunk's in provider order.
C1_BatchingInChunksOfFifty ==
    /\ \A k \in 1..Len(requests) :
           /\ requests[k].id = KthChunk(k)
           /\ Len(requests[k].id) \in 1..ChunkSize
    /\ all_video_info = Concat([k \in 1..Len(responses) |-> RowsOfRequest(k)])
    /\ pc = "done" => Len(requests) = NumChunks(Len(detail_ids))

C1_Witness ==
    /\ pc = "done"
    /\ Len(detail_ids) = 2 * ChunkSize + 1
    /\ Len(requests) = 3
    /\ \A k \in 1..3 : responses[k].ok
    /\ Len(all_video_info) = 2 * ChunkSize + 1
    /\ all_video_info[1].video_id = PyId(ChunkSize)
    /\ all_video_info[ChunkSize + 1].video_id = PyId(ChunkSize + 1)

\* C2: whichever chunks fail, every chunk is requested exactly once, a
\* failed chunk gives no rows, and the result is the rows of the successful
\* chunks in chunk order.
C2_FailedChunksAreIsolated ==
    /\ error = "none"
    /\ Len(requests) = Len(responses)
    /\ i = ChunkSize * Len(requests)
    /\ \A k \in 1..Len(responses) :
           ~responses[k].ok =>
               /\ Len(requests) < NumChunks(Len(detail_ids)) => pc = "details_loop"
               /\ all_video_info =
                      Concat([j \in 1..(k - 1) |-> RowsOfRequest(j)])
                      \o Concat([j \in 1..(Len(responses) - k) |-> RowsOfRequest(k + j)])
    /\ pc = "done" =>
           /\ Len(requests) = NumChunks(Len(detail_ids))
           /\ \A j, k \in 1..Len(requests) : j # k => requests[j].id # requests[k].id
           /\ \A k \in 1..Len(requests) : requests[k].id = KthChunk(k)

C2_Witness ==
    /\ pc = "done"
    /\ Len(responses) = 3
    /\ responses[1].ok /\ ~responses[2].ok /\ responses[3].ok
    /\ Len(all_video_info) = ChunkSize + 1
    /\ all_video_info = VideoRows(responses[1].body) \o VideoRows(responses[3].body)

\* ---------------------------------------------- get_video_ids: properties
\* The identifiers of pages 1..n of the fixture, in page order.
RECURSIVE IdsOfPages(_)
IdsOfPages(n) ==
    IF n = 0 THEN <<>>
    ELSE IdsOfPages(n - 1) \o PageVideoIds(GetOr(listing[n].body, "items", <<>>))

IdsTerminated == pc \in {"done", "raised"}

\* The j-th response ends the chain: it failed, or it carries no next cursor.
EndsListing(j) ==
    \/ ~responses[j].ok
    \/ ~Truthy(Get(responses[j].body, "nextPageToken"))

\* C3: a provider failure on page k aborts get_video_ids: the failed request
\* is the last one, nothing is raised, and the call returns the identifiers
\* of pages 1..k-1 in page order.
C3_FailureAbortsWithPartialResult ==
    \A k \in 1..Len(responses) :
        ~responses[k].ok =>
            /\ k = Len(responses)
            /\ Len(requests) = k
            /\ pc = "done"
            /\ error = "none"
            /\ video_ids = IdsOfPages(k - 1)

C3_Witness ==
    /\ pc = "done"
    /\ Len(responses) = 3
    /\ ~responses[3].ok
    /\ Len(video_ids) >= 3

\* C5: against a finite chain of pages get_video_ids terminates, and it
\* stops after the first response without a next cursor or the first
\* failed request.
C5_TerminatesOnFiniteChain ==
    /\ <>IdsTerminated
    /\ [](\A j \in 1..Len(responses) :
              EndsListing(j) => (j = Len(responses) /\ IdsTerminated))

C5_Witness ==
    /\ pc = "done"
    /\ Len(responses) = 3
    /\ responses[3].ok
    /\ responses[2].ok

\* C6: the cursor protocol: the first request carries no page token, each
\* later one carries the cursor of the response before it, every request
\* asks for at most 50 items, and a run without a failed request returns
\* the identifiers of all pages in page order, each page requested once.
C6_CursorProtocol ==
    /\ Len(requests) >= 1 => requests[1].pageToken = None
    /\ \A j \in 2..Len(requests) :
           /\ responses[j - 1].ok
           /\ requests[j].pageToken = Get(responses[j - 1].body, "nextPageToken")
    /\ \A j \in 1..Len(requests) :
           /\ requests[j].maxResults <= 50
           /\ requests[j].playlistId = playlist_id
    /\ (pc = "done" /\ \A j \in 1..Len(responses) : responses[j].ok) =>
           /\ Len(requests) = Len(listing)
           /\ \A j \in 1..Len(requests) : PageOf(requests[j].pageToken) = j
           /\ video_ids = IdsOfPages(Len(listing))

C6_Witness ==
    /\ pc = "done"
    /\ Len(requests) = 3
    /\ \A j \in 1..Len(responses) : responses[j].ok
    /\ Len(video_ids) >= 5

\* C13: get_video_ids is deterministic on a fixed fixture: a second call
\* against the same pages ends as the first did, returns the same
\* identifiers in the same order, and makes the same requests (nothing the
\* first call left behind changes it).
C13_SecondRunRepeatsFirst ==
    (returned # <<>> /\ IdsTerminated) =>
        /\ video_ids = returned[1].ids
        /\ error = returned[1].error
        /\ Len(requests) = 2 * returned[1].requests
        /\ \A k \in 1..returned[1].requests :
               requests[returned[1].requests + k] = requests[k]

C13_Witness ==
    /\ returned # <<>>
    /\ pc = "done"
    /\ Len(requests) = 6
    /\ Len(video_ids) >= 4
    /\ video_ids = returned[1].ids

\* The identifiers of a page's items, an item without the contentDetails
\* section or without a videoId in it counting for nothing.
RECURSIVE IdsSkippingBadItems(_)
IdsSkippingBadItems(items) ==
    IF items = <<>> THEN <<>>
    ELSE LET vid == Get(GetOr(Head(items), "contentDetails", EmptyDict), "videoId")
         IN  (IF Truthy(vid) THEN <<vid>> ELSE <<>>) \o IdsSkippingBadItems(Tail(items))

\* C16: a listing item without the contentDetails section, or without a
\* videoId in it, is skipped: get_video_ids raises nothing, and what it has
\* collected is the identifiers of the other items of the pages read so
\* far, in order.
C16_ItemWithoutInnerFieldIsSkipped ==
    /\ pc # "raised"
    /\ video_ids =
           Concat([k \in 1..Len(responses) |->
                     IF responses[k].ok
                     THEN IdsSkippingBadItems(GetOr(responses[k].body, "items", <<>>))
                     ELSE <<>>])

\* ---------------------------------------------- preprocess_video_data
\* Floats are exact fractions num/den (den > 0, in lowest terms): the model
\* leaves out the rounding of binary floating point.
RECURSIVE Gcd(_, _)
Gcd(a, b) == IF b = 0 THEN a ELSE Gcd(b, a % b)

Abs(n) == IF n < 0 THEN -n ELSE n

Frac(n, d) ==
    LET sn == IF d < 0 THEN -n ELSE n
        sd == Abs(d)
        g == Gcd(Abs(sn), sd)
    IN  [t |-> "float", num |-> sn \div g, den |-> sd \div g]

NaT == [t |-> "nat"]

\* pd.isnull / pd.notnull of a cell
IsNullCell(x) == x.t \in {"none", "nan", "nat"}

DigitChars == <<"0", "1", "2", "3", "4", "5", "6", "7", "8", "9">>
IsDigit(c) == \E k \in 1..10 : DigitChars[k] = c
DigitVal(c) == (CHOOSE k \in 1..10 : DigitChars[k] = c) - 1

AllDigits(cs) == \A k \in 1..Len(cs) : IsDigit(cs[k])

\* The number a run of digits writes.
RECURSIVE DigitsVal(_)
DigitsVal(cs) ==
    IF cs = <<>> THEN 0
    ELSE 10 * DigitsVal(SubSeq(cs, 1, Len(cs) - 1)) + DigitVal(cs[Len(cs)])

RECURSIVE Pow10(_)
Pow10(n) == IF n = 0 THEN 1 ELSE 10 * Pow10(n - 1)

\* The number a string writes, as pd.to_numeric reads it: an optional sign,
\* digits, and an optional fraction.
ParseNumeric(cs) ==
    LET neg == cs # <<>> /\ cs[1] = "-"
        body == IF cs # <<>> /\ cs[1] \in {"-", "+"} THEN Tail(cs) ELSE cs
        dots == {k \in 1..Len(body) : body[k] = "."}
        dot == IF dots = {} THEN Len(body) + 1 ELSE CHOOSE k \in dots : \A m \in dots : k <= m
        ip == SubSeq(body, 1, dot - 1)
        fp == SubSeq(body, dot + 1, Len(body))
        mag == DigitsVal(ip \o fp)
    IN  IF ip # <<>> /\ AllDigits(ip) /\ AllDigits(fp) /\ (dots = {} \/ fp # <<>>)
        THEN [ok |-> TRUE, num |-> IF neg THEN -mag ELSE mag, den |-> Pow10(Len(fp))]
        ELSE [ok |-> FALSE]

\* pd.to_numeric(errors='coerce') of one cell
ToNumeric(x) ==
    CASE x.t = "str" -> (LET p == ParseNumeric(x.v)
                         IN  IF p.ok THEN Frac(p.num, p.den) ELSE NaN)
      [] x.t = "int" -> Frac(x.v, 1)
      [] x.t = "float" -> x
      [] OTHER -> NaN

FillNa0_MinusOne(x) == IF IsNullCell(x) THEN Frac(-1, 1) ELSE x

\* .fillna(0)
FillNa0(x) == IF IsNullCell(x) THEN Frac(0, 1) ELSE x

\* .astype(int): truncation toward zero
AsInt(f) == PyInt(IF f.num >= 0 THEN f.num \div f.den ELSE -((-f.num) \div f.den))

\* pd.to_numeric(col, errors='coerce').fillna(0).astype(int) of one cell
CoerceCount(x) == AsInt(FillNa0(ToNumeric(x)))

IsLeap(y) == (y % 4 = 0 /\ y % 100 # 0) \/ y % 400 = 0

DaysInMonth(y, m) ==
    IF m = 2 THEN (IF IsLeap(y) THEN 29 ELSE 28)
    ELSE IF m \in {4, 6, 9, 11} THEN 30 ELSE 31

\* A timestamp string YYYY-MM-DDThh:mm:ssZ, as pd.to_datetime(errors='coerce')
\* reads it; anything else the inputs hold is not a date.
ParseDate(cs) ==
    IF /\ Len(cs) = 20
       /\ \A k \in {1, 2, 3, 4, 6, 7, 9, 10, 12, 13, 15, 16, 18, 19} : IsDigit(cs[k])
       /\ cs[5] = "-" /\ cs[8] = "-" /\ cs[11] = "T"
       /\ cs[14] = ":" /\ cs[17] = ":" /\ cs[20] = "Z"
    THEN LET y == DigitsVal(SubSeq(cs, 1, 4))
             m == DigitsVal(SubSeq(cs, 6, 7))
             d == DigitsVal(SubSeq(cs, 9, 10))
             hh == DigitsVal(SubSeq(cs, 12, 13))
             mi == DigitsVal(SubSeq(cs, 15, 16))
             ss == DigitsVal(SubSeq(cs, 18, 19))
         IN  IF /\ y >= 1 /\ m \in 1..12 /\ d >= 1 /\ d <= DaysInMonth(y, m)
                /\ hh < 24 /\ mi < 60 /\ ss < 60
             THEN [t |-> "datetime", year |-> y, month |-> m, day |-> d,
                   hour |-> hh, minute |-> mi, second |-> ss]
             ELSE NaT
    ELSE NaT

\* pd.to_datetime(errors='coerce') of one cell
ToDatetime(x) == IF x.t = "str" THEN ParseDate(x.v) ELSE NaT

DayNames == <<"Sunday", "Monday", "Tuesday", "Wednesday", "Thursday", "Friday", "Saturday">>
MonthOffsets == <<0, 3, 2, 5, 0, 3, 5, 1, 4, 6, 2, 4>>

\* .dt.day_name() of one cell
DayName(ts) ==
    IF ts.t # "datetime" THEN NaN
    ELSE LET y == IF ts.month < 3 THEN ts.year - 1 ELSE ts.year
             w == (y + (y \div 4) - (y \div 100) + (y \div 400)
                   + MonthOffsets[ts.month] + ts.day) % 7
         IN  [t |-> "dayname", v |-> DayNames[w + 1]]

\* The end of the run of digits of cs that starts at position k.
RECURSIVE DigitRun(_, _)
DigitRun(cs, k) ==
    IF k <= Len(cs) /\ IsDigit(cs[k]) THEN DigitRun(cs, k + 1) ELSE k

\* An optional "<digits><designator>" at position k: its value and what follows.
DurationField(cs, k, designator) ==
    LET e == DigitRun(cs, k)
    IN  IF e > k /\ e <= Len(cs) /\ cs[e] = designator
        THEN [val |-> DigitsVal(SubSeq(cs, k, e - 1)), next |-> e + 1]
        ELSE [val |-> 0, next |-> k]

\* isodate.parse_duration(x).total_seconds() of a string P[nY][nM][nW][nD]
\* [T[nH][nM][nS]]: the seconds (years and months do not count into
\* total_seconds), or not ok where isodate raises ISO8601Error.
ParseDuration(cs) ==
    IF Len(cs) < 2 \/ cs[1] # "P" THEN [ok |-> FALSE]
    ELSE LET yy == DurationField(cs, 2, "Y")
             mo == DurationField(cs, yy.next, "M")
             ww == DurationField(cs, mo.next, "W")
             dd == DurationField(cs, ww.next, "D")
             timed == dd.next <= Len(cs) /\ cs[dd.next] = "T"
             hh == DurationField(cs, dd.next + 1, "H")
             mi == DurationField(cs, hh.next, "M")
             ss == DurationField(cs, mi.next, "S")
             days == 7 * ww.val + dd.val
         IN  IF ~timed
             THEN (IF dd.next = Len(cs) + 1
                   THEN [ok |-> TRUE, secs |-> 86400 * days]
                   ELSE [ok |-> FALSE])
             ELSE (IF ss.next = Len(cs) + 1
                   THEN [ok |-> TRUE,
                         secs |-> 86400 * days + 3600 * hh.val + 60 * mi.val + ss.val]
                   ELSE [ok |-> FALSE])

\* The exception the duration lambda raises on a cell, or "none".
DurationError(x) ==
    CASE IsNullCell(x) -> "none"
      [] x.t = "str" -> (IF ParseDuration(x.v).ok THEN "none" ELSE "ISO8601Error")
      [] OTHER -> "TypeError"

\* isodate.parse_duration(x).total_seconds() if pd.notnull(x) else None
DurationSecs(x) == IF IsNullCell(x) THEN None ELSE Frac(ParseDuration(x.v).secs, 1)

TagsCount_AnySized(x) == PyInt(IF x.t \in {"list", "str"} THEN Len(x.v) ELSE 0)

\* len(x) if isinstance(x, list) else 0
TagsCount(x) == PyInt(IF x.t = "list" THEN Len(x.v) ELSE 0)

\* len(x) if isinstance(x, str) else 0
TitleLength(x) == PyInt(IF x.t = "str" THEN Len(x.v) ELSE 0)

Ratio_PerHundred(count, views) == IF views # 0 THEN Frac(count * 100, views) ELSE Frac(0, 1)

\* (row[count] / row['viewCount'] * 1000) if row['viewCount'] else 0
Ratio(count, views) == IF views # 0 THEN Frac(count * 1000, views) ELSE Frac(0, 1)

\* One row after all the column assignments.
EnrichRow(r) ==
    LET views == CoerceCount(r.viewCount)
        likes == CoerceCount(r.likeCount)
        comments == CoerceCount(r.commentCount)
        published == ToDatetime(r.publishedAt)
    IN  [video_id |-> r.video_id, channelTitle |-> r.channelTitle, title |-> r.title,
         description |-> r.description, tags |-> r.tags, publishedAt |-> published,
         viewCount |-> views, likeCount |-> likes,
         favoriteCount |-> CoerceCount(r.favoriteCount), commentCount |-> comments,
         duration |-> r.duration, definition |-> r.definition, caption |-> r.caption,
         publishDayName |-> DayName(published),
         durationSecs |-> DurationSecs(r.duration),
         tagsCount |-> TagsCount(r.tags),
         likeRatio |-> Ratio(likes.v, views.v),
         commentRatio |-> Ratio(comments.v, views.v),
         titleLength |-> TitleLength(r.title)]

\* What preprocess_video_data does with a table: video_df[col] raises
\* KeyError on a table without columns, the duration lambda raises on the
\* first cell it cannot parse, and otherwise every row is enriched.  (The
\* columns assigned before a raise are lost with the table: nothing reads
\* it after the exception.)
Preprocess(df) ==
    LET bad == {j \in 1..Len(df.rows) : DurationError(df.rows[j].duration) # "none"}
    IN  IF ~df.columns THEN [raised |-> TRUE, error |-> "KeyError: viewCount"]
        ELSE IF bad # {}
        THEN [raised |-> TRUE,
              error |-> DurationError(df.rows[CHOOSE j \in bad : \A k \in bad : j <= k].duration)]
        ELSE [raised |-> FALSE,
              df |-> [columns |-> TRUE,
                      rows |-> [j \in 1..Len(df.rows) |-> EnrichRow(df.rows[j])]]]

\* The call of preprocess_video_data on video_df; main assigns the result
\* to all_videos_df.
PreprocessCall ==
    /\ pc = "preprocess"
    /\ LET res == Preprocess(video_df)
       IN  IF res.raised
           THEN /\ pc' = "raised"
                /\ error' = res.error
                /\ UNCHANGED <<video_df, all_videos_df>>
           ELSE /\ pc' = IF caller = "main" THEN "main_sentiment" ELSE "done"
                /\ video_df' = res.df
                /\ all_videos_df' = IF caller = "main" THEN res.df ELSE all_videos_df
                /\ UNCHANGED error
    /\ UNCHANGED <<caller, requests, responses, idsVars, detailVars, pre_input,
                   channel_stats, ch, live_streams_data, emitted>>

\* A raw row as get_video_details builds it.
RawRow(views, likes, comments, duration, published, tags, title) ==
    [video_id |-> PyId(1), channelTitle |-> PyStr(<<"c">>), title |-> title,
     description |-> None, tags |-> tags, publishedAt |-> published,
     viewCount |-> views, likeCount |-> likes, favoriteCount |-> views,
     commentCount |-> comments, duration |-> duration, definition |-> None,
     caption |-> None]

RawCounts ==
    { None, PyStr(<<"0">>), PyStr(<<"5">>), PyStr(<<"1", "0", "0", "0">>),
      PyStr(<<"-", "5">>), PyStr(<<"3", ".", "7">>), PyStr(<<>>), Junk }

RawLikes == { None, PyStr(<<"5", "0">>), PyStr(<<"-", "2">>), Junk }

RawDurations ==
    { None, DurationPT1H2M10S, PyStr(<<"P", "1", "D", "T", "2", "S">>),
      PyStr(<<"P", "T", "5", "M">>), PyStr(<<>>), Junk }

RawDates ==
    { None, Date20240311, Junk,
      PyStr(<<"2", "0", "2", "3", "-", "0", "2", "-", "2", "9", "T",
              "0", "0", ":", "0", "0", ":", "0", "0", "Z">>),
      PyStr(<<"2", "0", "0", "0", "-", "0", "1", "-", "0", "1", "T",
              "2", "3", ":", "5", "9", ":", "5", "9", "Z">>) }

RawTags == { None, TagsXy, PyList(<<>>), Junk }

\* The rows a table may hold: the counts vary, or the duration and the
\* date, or the tags and the title.
RawRows ==
    { RawRow(v, l, c, DurationPT1H2M10S, Date20240311, TagsXy, TitleAb)
      : v \in RawCounts, l \in RawLikes, c \in {None, PyStr(<<"5">>)} }
    \cup { RawRow(PyStr(<<"1", "0", "0", "0">>), PyStr(<<"5", "0">>), PyStr(<<"5">>),
                  d, p, TagsXy, TitleAb)
           : d \in RawDurations, p \in RawDates }
    \cup { RawRow(PyStr(<<"5">>), None, None, None, None, g, ti)
           : g \in RawTags, ti \in {None, TitleAb} }

\* The rows that stand beside one of RawRows in a longer table.
CompanionRows ==
    { ProjectVideo(VideoItem(PyId(2), sh)) : sh \in {"full", "sparse", "junk"} }

\* The tables of n rows: one of RawRows at any place among companions.
Batches(n) ==
    IF n = 0 THEN {<<>>}
    ELSE { [j \in 1..n |-> IF j = at THEN r ELSE IF j < at THEN c[j] ELSE c[j - 1]]
           : at \in 1..n, r \in RawRows, c \in [1..(n - 1) -> CompanionRows] }

\* preprocess_video_data run on its own: on a table without columns, or on
\* one made of up to MaxRows rows.
InitPre ==
    /\ pc = "preprocess"
    /\ caller = "none"
    /\ error = "none"
    /\ requests = <<>>
    /\ responses = <<>>
    /\ playlist_id = None
    /\ listing = <<>>
    /\ video_ids = <<>>
    /\ next_page_token = None
    /\ returned = <<>>
    /\ detail_ids = <<>>
    /\ i = 0
    /\ all_video_info = <<>>
    /\ \E n \in 0..MaxRows : \E b \in Batches(n) : video_df = FrameOf(b)
    /\ pre_input = video_df
    /\ channel_stats = <<>>
    /\ ch = 0
    /\ all_videos_df = EmptyFrame
    /\ live_streams_data = <<>>
    /\ emitted = <<>>

NextPre == PreprocessCall

SpecPre == InitPre /\ [][NextPre]_vars

\* ------------------------------------- preprocess_video_data: properties
CountColumns == {"viewCount", "likeCount", "favoriteCount", "commentCount"}

\* The call returned: video_df holds one enriched row per row passed.
PreReturned == pc = "done" /\ video_df.columns /\ Len(video_df.rows) = Len(pre_input.rows)

\* ratio = count / views * 1000, as an equation between integers
IsPerThousand(ratio, count, views) ==
    /\ ratio.t = "float"
    /\ ratio.den > 0
    /\ ratio.num * views = count * 1000 * ratio.den

IsZero(ratio) == ratio.t = "float" /\ ratio.num = 0

\* C8 as stated: the ratios are count / viewCount * 1000 when viewCount > 0
\* and 0 otherwise.
C8_Original_RatioZeroUnlessPositive ==
    PreReturned =>
        \A j \in 1..Len(video_df.rows) :
            LET r == video_df.rows[j]
            IN  IF r.viewCount.v > 0
                THEN /\ IsPerThousand(r.likeRatio, r.likeCount.v, r.viewCount.v)
                     /\ IsPerThousand(r.commentRatio, r.commentCount.v, r.viewCount.v)
                ELSE IsZero(r.likeRatio) /\ IsZero(r.commentRatio)

\* C8, amended: the ratios are count / viewCount * 1000 when viewCount is
\* not 0 (a negative viewCount included) and 0 when viewCount is 0;
\* viewCount = 1000 and likeCount = 50 give likeRatio 50.
C8_RatioZeroOnlyOnZeroViews ==
    PreReturned =>
        \A j \in 1..Len(video_df.rows) :
            LET r == video_df.rows[j]
            IN  /\ IF r.viewCount.v # 0
                   THEN /\ IsPerThousand(r.likeRatio, r.likeCount.v, r.viewCount.v)
                        /\ IsPerThousand(r.commentRatio, r.commentCount.v, r.viewCount.v)
                   ELSE IsZero(r.likeRatio) /\ IsZero(r.commentRatio)
                /\ (r.viewCount.v = 1000 /\ r.likeCount.v = 50) =>
                       (r.likeRatio.num = 50 /\ r.likeRatio.den = 1)

C8_Witness ==
    /\ PreReturned
    /\ \E j, k \in 1..Len(video_df.rows) :
          /\ video_df.rows[j].viewCount.v = 0
          /\ video_df.rows[j].likeCount.v = 50
          /\ IsZero(video_df.rows[j].likeRatio)
          /\ video_df.rows[k].viewCount.v = 1000
          /\ video_df.rows[k].likeCount.v = 50
          /\ video_df.rows[k].likeRatio.num = 50

\* A raw count that is absent or that does not write a number.
NotANumber(raw) ==
    \/ raw.t = "none"
    \/ raw.t \in {"str", "list"} /\
          (raw.v = <<>> \/ \E k \in 1..Len(raw.v) : ~IsDigit(raw.v[k]) /\ raw.v[k] \notin {"-", "+", "."})

\* C9 as stated: every count column of every row is a non-negative
\* integer, and an absent or unparseable raw value becomes 0.
C9_Original_CountsNonNegative ==
    PreReturned =>
        \A j \in 1..Len(video_df.rows) : \A c \in CountColumns :
            /\ video_df.rows[j][c].t = "int"
            /\ video_df.rows[j][c].v >= 0
            /\ NotANumber(pre_input.rows[j][c]) => video_df.rows[j][c].v = 0

\* C9, amended: every count column of every row is an integer, never null;
\* an absent or unparseable raw value becomes 0, a raw value written with
\* digits only is its own value, and a count is negative only where the
\* raw value is a negative number (no clamping).
C9_CountsAreIntegers ==
    PreReturned =>
        \A j \in 1..Len(video_df.rows) : \A c \in CountColumns :
            LET raw == pre_input.rows[j][c]
                cell == video_df.rows[j][c]
            IN  /\ cell.t = "int"
                /\ NotANumber(raw) => cell.v = 0
                /\ (raw.t = "str" /\ raw.v # <<>> /\ AllDigits(raw.v)) =>
                       cell.v = DigitsVal(raw.v)
                /\ cell.v < 0 => (raw.t = "str" /\ raw.v # <<>> /\ raw.v[1] = "-")

C9_Witness ==
    /\ PreReturned
    /\ \E j \in 1..Len(video_df.rows) :
          /\ pre_input.rows[j].viewCount = Junk
          /\ pre_input.rows[j].likeCount = None
          /\ video_df.rows[j].viewCount = PyInt(0)
          /\ video_df.rows[j].likeCount = PyInt(0)
    /\ \E j \in 1..Len(video_df.rows) : video_df.rows[j].viewCount = PyInt(1000)

\* A raw duration that is present and that isodate cannot parse.
DurationUnparseable(raw) == raw.t = "str" /\ ~ParseDuration(raw.v).ok

\* A raw publishedAt that is present and is no timestamp.
DateUnparseable(raw) == raw.t = "str" /\ ParseDate(raw.v).t # "datetime"

\* C10: a malformed field never aborts the row or the batch: on a table
\* with its columns the call completes with one row per input row, and a
\* row with an unparseable duration (publishedAt) has a null durationSecs
\* (publishDayName).
C10_MalformedFieldNeverAborts ==
    (pc \in {"done", "raised"} /\ pre_input.columns) =>
        /\ PreReturned
        /\ \A j \in 1..Len(video_df.rows) :
              /\ DurationUnparseable(pre_input.rows[j].duration) =>
                     IsNullCell(video_df.rows[j].durationSecs)
              /\ DateUnparseable(pre_input.rows[j].publishedAt) =>
                     IsNullCell(video_df.rows[j].publishDayName)

\* C12: for every enriched row, tagsCount is the length of tags when tags
\* is a list and 0 otherwise (absent, or a non-list value such as a
\* string); the tags themselves are left as they were.
C12_TagsCountIsListLength ==
    PreReturned =>
        \A j \in 1..Len(video_df.rows) :
            LET raw == pre_input.rows[j].tags
                row == video_df.rows[j]
            IN  /\ row.tagsCount.t = "int"
                /\ raw.t = "list" => row.tagsCount.v = Len(raw.v)
                /\ raw.t # "list" => row.tagsCount.v = 0
                /\ row.tags = raw

C12_Witness ==
    /\ PreReturned
    /\ \E j, k \in 1..Len(video_df.rows) :
          /\ pre_input.rows[j].tags = Junk
          /\ video_df.rows[j].tagsCount = PyInt(0)
          /\ pre_input.rows[k].tags = TagsXy
          /\ video_df.rows[k].tagsCount = PyInt(2)

\* -------------------------------------------------- get_channel_stats
ChannelNames == <<PyStr(<<"A">>), PyStr(<<"B">>)>>

\* The shapes of an item of a channels().list response: every section; no
\* uploads playlist among relatedPlaylists; no statistics section.
ChannelShapes == {"full", "no_uploads", "no_statistics"}

ChannelItem(k, name, shape) ==
    LET snippet == [title |-> name, publishedAt |-> Date20240311]
        statistics == [viewCount |-> PyStr(<<"1", "0", "0", "0">>),
                       videoCount |-> PyStr(<<"5">>)]
    IN  CASE shape = "full" ->
               [id |-> PyId(100 + k), snippet |-> snippet, statistics |-> statistics,
                contentDetails |-> [relatedPlaylists |-> [uploads |-> PyId(200 + k)]]]
          [] shape = "no_uploads" ->
               [id |-> PyId(100 + k), snippet |-> snippet, statistics |-> statistics,
                contentDetails |-> [relatedPlaylists |-> EmptyDict]]
          [] OTHER ->
               [id |-> PyId(100 + k), snippet |-> snippet,
                contentDetails |-> [relatedPlaylists |-> [uploads |-> PyId(200 + k)]]]

\* The item lists a channels().list response may carry for the configured
\* channel ids: the first channel is named A, a second one A or B.
ChannelItemLists ==
    {<<>>}
    \cup { <<ChannelItem(1, ChannelNames[1], s1)>> : s1 \in ChannelShapes }
    \cup { <<ChannelItem(1, ChannelNames[1], s1), ChannelItem(2, ChannelNames[n], s2)>>
           : s1 \in ChannelShapes, s2 \in ChannelShapes, n \in 1..NumChannelIds }

ChannelOutcomes ==
    {[fail |-> TRUE], [fail |-> FALSE, body |-> EmptyDict]}
    \cup { [fail |-> FALSE, body |-> [items |-> l]] : l \in ChannelItemLists }

ChannelsRequest ==
    [kind |-> "channels", part |-> "snippet,contentDetails,statistics",
     id |-> [k \in 1..NumChannelIds |-> PyId(100 + k)]]

\* int(x) of a count: a default 0, or a string of digits.
IntOf(x) == IF x.t = "int" THEN x ELSE PyInt(DigitsVal(x.v))

\* item['snippet'], item['statistics'], item['contentDetails']
\* ['relatedPlaylists'] raise KeyError when absent.
ChannelItemRaises(item) ==
    \/ {"snippet", "statistics", "contentDetails"} \ DOMAIN item # {}
    \/ "relatedPlaylists" \notin DOMAIN item["contentDetails"]

\* data: one row of the channel table.
ChannelRow(item) ==
    [channelId |-> Get(item, "id"),
     channelName |-> Get(item["snippet"], "title"),
     publishedAt |-> Get(item["snippet"], "publishedAt"),
     subscriberCount |-> IntOf(GetOr(item["statistics"], "subscriberCount", PyInt(0))),
     viewCount |-> IntOf(GetOr(item["statistics"], "viewCount", PyInt(0))),
     videoCount |-> IntOf(GetOr(item["statistics"], "videoCount", PyInt(0))),
     uploadsPlaylistId |-> Get(item["contentDetails"]["relatedPlaylists"], "uploads")]

\* What get_channel_stats does with the provider's outcome: no rows on an
\* HttpError, KeyError on an item without a section, else a row per item.
ChannelStats(out) ==
    IF out.fail THEN [raised |-> FALSE, rows |-> <<>>]
    ELSE LET items == GetOr(out.body, "items", <<>>)
         IN  IF \E j \in 1..Len(items) : ChannelItemRaises(items[j])
             THEN [raised |-> TRUE, error |-> "KeyError: statistics"]
             ELSE [raised |-> FALSE,
                   rows |-> [j \in 1..Len(items) |-> ChannelRow(items[j])]]

\* ---------------------------------------------------- get_live_streams
LiveItem(k) ==
    [id |-> [videoId |-> PyId(300 + k)],
     snippet |-> [title |-> TitleAb, publishedAt |-> Date20240311]]

\* What the provider does with a live search: it fails (HttpError), or
\* lists up to MaxLive live videos, or lists an item without its snippet.
LiveOutcomes ==
    {[fail |-> TRUE], [fail |-> FALSE, body |-> EmptyDict]}
    \cup { [fail |-> FALSE, body |-> [items |-> [k \in 1..n |-> LiveItem(k)]]]
           : n \in 0..MaxLive }
    \cup { [fail |-> FALSE, body |-> [items |-> <<[id |-> [videoId |-> PyId(301)]]>>]] }

SearchRequest(channel_id) ==
    [kind |-> "search", part |-> "snippet", channelId |-> channel_id,
     eventType |-> "live", type |-> "video", maxResults |-> 5]

LiveItemRaises(item) == {"id", "snippet"} \ DOMAIN item # {}

LiveVideo(item) ==
    [videoId |-> Get(item["id"], "videoId"),
     title |-> Get(item["snippet"], "title"),
     publishedAt |-> Get(item["snippet"], "publishedAt")]

LiveAfterError_Raise == [raised |-> TRUE, error |-> "HttpError"]

\* except HttpError: log; return live_videos, which is still empty.
LiveAfterError == [raised |-> FALSE, videos |-> <<>>]

\* What get_live_streams does with the provider's outcome: an empty list on
\* an HttpError, KeyError on an item without a section, else the records.
LiveStreams(out) ==
    IF out.fail THEN LiveAfterError
    ELSE LET items == GetOr(out.body, "items", <<>>)
         IN  IF \E j \in 1..Len(items) : LiveItemRaises(items[j])
             THEN [raised |-> TRUE, error |-> "KeyError: snippet"]
             ELSE [raised |-> FALSE,
                   videos |-> [j \in 1..Len(items) |-> LiveVideo(items[j])]]

\* ----------------------------------------------------------------- main
\* d[key] = value on a dict kept as a sequence of its entries in insertion
\* order: an existing key keeps its place and takes the new value.
DictSet(d, key, value) ==
    IF \E j \in 1..Len(d) : d[j].key = key
    THEN [j \in 1..Len(d) |-> IF d[j].key = key THEN [key |-> key, value |-> value] ELSE d[j]]
    ELSE Append(d, [key |-> key, value |-> value])

\* pd.concat([a, b], ignore_index=True)
ConcatFrames(a, b) == [columns |-> a.columns \/ b.columns, rows |-> a.rows \o b.rows]

\* analyze_sentiment(x): TextBlob(text) raises TypeError unless text is a str.
SentimentRaises(title) == title.t # "str"

\* The polarity of a title: a function of the text, otherwise unknown.
Polarity(title) == [t |-> "polarity", of |-> title.v]

\* pd.DataFrame(live_streams_data) raises ValueError when the lists differ
\* in length.
LiveTableRaises(d) == \E j, k \in 1..Len(d) : Len(d[j].value) # Len(d[k].value)

\* channel_stats = yt_analytics.get_channel_stats(YOUTUBE_CHANNEL_IDS)
MainChannelStats ==
    /\ pc = "main_start"
    /\ requests' = Append(requests, ChannelsRequest)
    /\ \E out \in ChannelOutcomes :
          LET res == ChannelStats(out)
          IN  IF res.raised
              THEN /\ pc' = "raised"
                   /\ error' = res.error
                   /\ UNCHANGED channel_stats
              ELSE /\ pc' = "main_loop"
                   /\ channel_stats' = res.rows
                   /\ UNCHANGED error
    /\ UNCHANGED <<caller, responses, idsVars, detailVars, preVars, ch,
                   all_videos_df, live_streams_data, emitted>>

\* The next row of `for _, row in channel_stats.iterrows()`: the call of
\* get_video_ids(playlist_id), against the pages the provider holds for it.
MainNextChannel ==
    /\ pc = "main_loop"
    /\ ch < Len(channel_stats)
    /\ ch' = ch + 1
    /\ playlist_id' = channel_stats[ch + 1].uploadsPlaylistId
    /\ listing' \in (IF playlist_id' = None THEN NoFilterFixtures
                     ELSE ListingFixtures(MainMaxPages))
    /\ video_ids' = <<>>
    /\ next_page_token' = None
    /\ responses' = <<>>
    /\ pc' = "ids_loop"
    /\ UNCHANGED <<caller, error, requests, returned, detailVars, preVars,
                   channel_stats, all_videos_df, live_streams_data, emitted>>

\* get_video_ids returned: `if video_ids:` calls get_video_details.
MainAfterIds ==
    /\ pc = "main_after_ids"
    /\ listing' = <<>>
    /\ responses' = <<>>
    /\ IF video_ids # <<>>
       THEN /\ detail_ids' = video_ids
            /\ i' = 0
            /\ all_video_info' = <<>>
            /\ pc' = "details_loop"
       ELSE /\ pc' = "main_loop"
            /\ UNCHANGED detailVars
    /\ UNCHANGED <<caller, error, requests, playlist_id, video_ids, next_page_token,
                   returned, preVars, mainVars>>

\* get_video_details returned: all_videos_df = pd.concat([...]).
MainAfterDetails ==
    /\ pc = "main_after_details"
    /\ all_videos_df' = ConcatFrames(all_videos_df, FrameOf(all_video_info))
    /\ responses' = <<>>
    /\ detail_ids' = <<>>
    /\ i' = 0
    /\ all_video_info' = <<>>
    /\ pc' = "main_loop"
    /\ UNCHANGED <<caller, error, requests, idsVars, preVars, channel_stats, ch,
                   live_streams_data, emitted>>

PcAfterVideoLoop_Live == "main_live"

\* The statement after the loop over the channels: the call of
\* preprocess_video_data.
PcAfterVideoLoop == "preprocess"

\* The loop over the channels is over: preprocess_video_data(all_videos_df).
MainVideosDone ==
    /\ pc = "main_loop"
    /\ ch >= Len(channel_stats)
    /\ video_df' = all_videos_df
    /\ pre_input' = all_videos_df
    /\ pc' = PcAfterVideoLoop
    /\ UNCHANGED <<caller, error, requests, responses, idsVars, detailVars, mainVars>>

\* all_videos_df['titleSentiment'] = all_videos_df['title'].apply(...)
MainSentiment ==
    /\ pc = "main_sentiment"
    /\ IF \E j \in 1..Len(all_videos_df.rows) : SentimentRaises(all_videos_df.rows[j].title)
       THEN /\ pc' = "raised"
            /\ error' = "TypeError"
            /\ UNCHANGED <<all_videos_df, ch>>
       ELSE /\ all_videos_df' =
                  [columns |-> TRUE,
                   rows |-> [j \in 1..Len(all_videos_df.rows) |->
                               [titleSentiment |-> Polarity(all_videos_df.rows[j].title)]
                               @@ all_videos_df.rows[j]]]
            /\ ch' = 0
            /\ pc' = "main_live"
            /\ UNCHANGED error
    /\ UNCHANGED <<caller, requests, responses, idsVars, detailVars, preVars,
                   channel_stats, live_streams_data, emitted>>

\* One row of the second loop: get_live_streams(channel_id), kept under
\* the channel's name.
MainLiveProbe ==
    /\ pc = "main_live"
    /\ ch < Len(channel_stats)
    /\ requests' = Append(requests, SearchRequest(channel_stats[ch + 1].channelId))
    /\ \E out \in LiveOutcomes :
          LET res == LiveStreams(out)
          IN  /\ responses' = Append(responses,
                                     IF out.fail THEN [ok |-> FALSE]
                                     ELSE [ok |-> TRUE, body |-> out.body])
              /\ IF res.raised
                 THEN /\ pc' = "raised"
                      /\ error' = res.error
                      /\ UNCHANGED <<ch, live_streams_data>>
                 ELSE /\ live_streams_data' =
                            DictSet(live_streams_data, channel_stats[ch + 1].channelName,
                                    res.videos)
                      /\ ch' = ch + 1
                      /\ UNCHANGED <<pc, error>>
    /\ UNCHANGED <<caller, idsVars, detailVars, preVars, channel_stats,
                   all_videos_df, emitted>>

\* The two to_csv calls.
MainSave ==
    /\ pc = "main_live"
    /\ ch >= Len(channel_stats)
    /\ IF LiveTableRaises(live_streams_data)
       THEN /\ emitted' = <<"youtube_video_data.csv">>
            /\ pc' = "raised"
            /\ error' = "ValueError"
       ELSE /\ emitted' = <<"youtube_video_data.csv", "youtube_live_streams.csv">>
            /\ pc' = "done"
            /\ UNCHANGED error
    /\ UNCHANGED <<caller, requests, responses, idsVars, detailVars, preVars,
                   channel_stats, ch, all_videos_df, live_streams_data>>

Init ==
    /\ pc = "main_start"
    /\ caller = "main"
    /\ error = "none"
    /\ requests = <<>>
    /\ responses = <<>>
    /\ playlist_id = None
    /\ listing = <<>>
    /\ video_ids = <<>>
    /\ next_page_token = None
    /\ returned = <<>>
    /\ detail_ids = <<>>
    /\ i = 0
    /\ all_video_info = <<>>
    /\ video_df = EmptyFrame
    /\ pre_input = EmptyFrame
    /\ channel_stats = <<>>
    /\ ch = 0
    /\ all_videos_df = EmptyFrame
    /\ live_streams_data = <<>>
    /\ emitted = <<>>

Next ==
    \/ MainChannelStats
    \/ MainNextChannel
    \/ IdsRequest
    \/ MainAfterIds
    \/ DetailsRequest
    \/ DetailsReturn
    \/ MainAfterDetails
    \/ MainVideosDone
    \/ PreprocessCall
    \/ MainSentiment
    \/ MainLiveProbe
    \/ MainSave

\* main is sequential code: it takes its next step whenever it has one.
Spec == Init /\ [][Next]_vars /\ WF_vars(Next)

\* ------------------------------------------------------ main: properties
\* The exceptions that a malformed item of a response raises (a missing
\* section, an unparseable duration, a title that is no string), as
\* against those a failed or empty unit of work leads to.
MalformedItemErrors ==
    {"KeyError: contentDetails", "KeyError: statistics", "KeyError: snippet",
     "ISO8601Error", "TypeError"}

\* C4: whatever requests fail (the channel-summary fetch, listing pages,
\* detail chunks, live probes), and also when no channel yields a video
\* row, main is not stopped by a raised error and, once it is through, has
\* emitted both tables.
C4_FailuresNeverStopMain ==
    /\ pc = "raised" => error \in MalformedItemErrors
    /\ pc = "done" => Len(emitted) = 2

\* C7: a channel without an uploads playlist id gives no video request of
\* its own, and does not keep main from the other channels or from the
\* output stage.
C7_ChannelWithoutUploadsIsSkipped ==
    /\ \A k \in 1..Len(requests) :
          (requests[k].kind = "playlistItems" /\ requests[k].playlistId = None) =>
              (k < Len(requests) => requests[k + 1].kind # "videos")
    /\ (\E c \in 1..Len(channel_stats) : channel_stats[c].uploadsPlaylistId = None) =>
          /\ pc \in {"preprocess", "main_sentiment", "main_live", "done"} =>
                Cardinality({k \in 1..Len(requests) : requests[k].kind = "playlistItems"})
                    >= Len(channel_stats)
          /\ pc = "raised" => error \in MalformedItemErrors

\* The fields of a video row that the pipeline reads.
RequestedFields ==
    {"title", "tags", "duration", "publishedAt",
     "viewCount", "likeCount", "favoriteCount", "commentCount"}

HasAbsentField(row) == \E f \in RequestedFields : row[f] = None

\* main is past the sentiment attachment: in the live loop, through, or
\* stopped by what the live loop or the save raised.
PastSentiment ==
    \/ pc \in {"main_live", "done"}
    \/ pc = "raised" /\ error \in {"KeyError: snippet", "ValueError"}

\* C11: a video row with an absent field raises in no stage: once the
\* combined table (with its columns, every duration present in it
\* parseable) has been handed to the enrichment, main gets past the
\* enrichment and the sentiment attachment, and a row with an absent title,
\* tags or duration has titleLength 0, tagsCount 0 or a null durationSecs.
C11_AbsentFieldNeverRaises ==
    (/\ pc \in {"main_live", "done", "raised"}
     /\ pre_input.columns
     /\ \E j \in 1..Len(pre_input.rows) : HasAbsentField(pre_input.rows[j])
     /\ \A j \in 1..Len(pre_input.rows) : ~DurationUnparseable(pre_input.rows[j].duration)) =>
        /\ PastSentiment
        /\ Len(all_videos_df.rows) = Len(pre_input.rows)
        /\ \A j \in 1..Len(pre_input.rows) :
              LET raw == pre_input.rows[j]
                  row == all_videos_df.rows[j]
              IN  /\ "titleSentiment" \in DOMAIN row
                  /\ raw.title = None => row.titleLength = PyInt(0)
                  /\ raw.tags = None => row.tagsCount = PyInt(0)
                  /\ raw.duration = None => IsNullCell(row.durationSecs)

\* A live probe has been issued.
Probing == \E k \in 1..Len(requests) : requests[k].kind = "search"

\* The value live_streams_data holds under a channel name.
LiveEntry(name) ==
    LET j == CHOOSE j \in 1..Len(live_streams_data) : live_streams_data[j].key = name
    IN  live_streams_data[j].value

\* C14: every call of get_live_streams issues exactly one query, for its
\* channel; a query that fails makes the call return an empty list and
\* raise nothing, and the probes of the remaining channels still follow.
C14_FailedProbeIsIsolated ==
    (pc \in {"main_live", "done"} \/ Probing) =>
        LET m == Len(responses)
            n == Len(requests)
        IN  /\ m <= Len(channel_stats)
            /\ \A k \in 1..n : (requests[k].kind = "search") <=> (k > n - m)
            /\ \A k \in 1..m :
                  requests[n - m + k] = SearchRequest(channel_stats[k].channelId)
            /\ \A k \in 1..m :
                  ~responses[k].ok =>
                      /\ ch >= k
                      /\ error # "HttpError"
                      /\ (\A l \in (k + 1)..m :
                             channel_stats[l].channelName # channel_stats[k].channelName) =>
                            LiveEntry(channel_stats[k].channelName) = <<>>
                      /\ (m = k /\ k < Len(channel_stats)) => pc = "main_live"
            /\ (pc = "done" \/ (pc = "raised" /\ error = "ValueError")) =>
                  m = Len(channel_stats)

C14_Witness ==
    /\ pc = "main_live"
    /\ ch = 2
    /\ Len(responses) = 2
    /\ ~responses[1].ok
    /\ responses[2].ok
    /\ Len(live_streams_data) = 2
    /\ live_streams_data[1].value = <<>>
    /\ Len(live_streams_data[2].value) = 2

\* The allow-listed fields of a row of the channel table and of the video
\* table.
ChannelFields ==
    {"channelId", "channelName", "publishedAt", "subscriberCount", "viewCount",
     "videoCount", "uploadsPlaylistId"}

VideoFields ==
    {"video_id", "channelTitle", "title", "description", "tags", "publishedAt",
     "viewCount", "likeCount", "favoriteCount", "commentCount", "duration",
     "definition", "caption"}

\* C15: the stats fetchers never fail on a lookup: whatever the response
\* items contain, get_channel_stats and get_video_details return, and every
\* row has exactly the allow-listed fields.
C15_ProjectionNeverFails ==
    /\ pc = "raised" => error # "KeyError: statistics"
    /\ \A c \in 1..Len(channel_stats) : DOMAIN channel_stats[c] = ChannelFields
    /\ \A j \in 1..Len(all_video_info) : DOMAIN all_video_info[j] = VideoFields

\* The places in the request log of the first page of each listing.
FirstPages ==
    {k \in 1..Len(requests) :
        requests[k].kind = "playlistItems" /\ requests[k].pageToken = None}

Searches == {k \in 1..Len(requests) : requests[k].kind = "search"}

\* The rows of the combined table carry the enrichment and the sentiment.
Enriched ==
    /\ all_videos_df.columns
    /\ \A j \in 1..Len(all_videos_df.rows) :
          {"durationSecs", "titleLength", "titleSentiment"} \subseteq DOMAIN all_videos_df.rows[j]

C18_LiveTableForAnyLists ==
    /\ ~(pc = "raised" /\ error = "ValueError")
    /\ (pc = "main_live" /\ ch >= Len(channel_stats)) =>
          /\ \A c \in 1..Len(channel_stats) :
                \E j \in 1..Len(live_streams_data) :
                    live_streams_data[j].key = channel_stats[c].channelName
          /\ \A j, k \in 1..Len(live_streams_data) :
                live_streams_data[j].key = live_streams_data[k].key => j = k
    /\ pc = "done" => emitted = <<"youtube_video_data.csv", "youtube_live_streams.csv">>

====
